---- MODULE Spec2Model ----
(***************************************************************************)
(* Model of src/src/components/admin/CsvUpload.tsx: the CsvUpload React    *)
(* component (file selector, upload handler, CSV ingestion).               *)
(*                                                                         *)
(* Strings are modelled as sequences of tokens.  A token is an atom of the *)
(* text: a separator (",", "\n"), a white space character, a digit, a     *)
(* sign, ".", "e", "E", or a word: a run of other characters, which is not *)
(* split further.  A character that a TLA+ string cannot hold is written   *)
(* as the token "U+" and its code point.  String equality is equality of   *)
(* token sequences; String.split / trim / endsWith / parseFloat work on    *)
(* the tokens as the JavaScript functions work on the characters.          *)
(***************************************************************************)
EXTENDS Integers, Sequences, FiniteSets, TLC

VARIABLES file, uploading, uploadStatus, tasks, store, done

vars == <<file, uploading, uploadStatus, tasks, store, done>>

----------------------------------------------------------------------------
(* Bounds *)

\* uploadProducts is not called more often than this in one behaviour
MaxCalls == 2

----------------------------------------------------------------------------
(* Strings *)

NL == "\n"
COMMA == ","

\* the characters String.prototype.trim removes and parseFloat skips: the
\* WhiteSpace and LineTerminator code points of ECMAScript
WhiteSpace ==
  {" ", "\t", "\n", "\r", "\f", "U+000B", "U+00A0", "U+1680",
   "U+2000", "U+2001", "U+2002", "U+2003", "U+2004", "U+2005", "U+2006",
   "U+2007", "U+2008", "U+2009", "U+200A", "U+2028", "U+2029", "U+202F",
   "U+205F", "U+3000", "U+FEFF"}

Digits == <<"0", "1", "2", "3", "4", "5", "6", "7", "8", "9">>

IsDigit(c) == \E i \in 1..10 : Digits[i] = c

DigitVal(c) == (CHOOSE i \in 1..10 : Digits[i] = c) - 1

Min(S) == CHOOSE x \in S : \A y \in S : x <= y

Max(S) == CHOOSE x \in S : \A y \in S : x >= y

\* s.split(sep) for a one-character separator
RECURSIVE Split(_, _)
Split(s, sep) ==
  LET at == {i \in 1..Len(s) : s[i] = sep} IN
  IF at = {} THEN <<s>>
  ELSE LET k == Min(at) IN
       <<SubSeq(s, 1, k - 1)>> \o Split(SubSeq(s, k + 1, Len(s)), sep)

\* s.trim()
Trim(s) ==
  LET keep == {i \in 1..Len(s) : s[i] \notin WhiteSpace} IN
  IF keep = {} THEN <<>> ELSE SubSeq(s, Min(keep), Max(keep))

\* s.endsWith(suffix)
EndsWith(s, suffix) ==
  /\ Len(s) >= Len(suffix)
  /\ SubSeq(s, Len(s) - Len(suffix) + 1, Len(s)) = suffix

\* names.join(sep), names a sequence of one-token strings
RECURSIVE Join(_, _)
Join(names, sep) ==
  IF Len(names) = 0 THEN <<>>
  ELSE IF Len(names) = 1 THEN <<names[1]>>
  ELSE <<names[1], sep>> \o Join(Tail(names), sep)

\* headers.includes(col)
Includes(cells, col) == \E i \in 1..Len(cells) : cells[i] = <<col>>

----------------------------------------------------------------------------
(* JavaScript values held by a product's fields *)

Undefined == [t |-> "undefined"]
NaN == [t |-> "NaN"]
Str(s) == [t |-> "string", s |-> s]

\* a finite double: (-1)^neg * m * 2^e, with m a natural number written as
\* its decimal digits, odd or zero (<<>>), e = 0 when m is zero
Num(neg, m, e) == [t |-> "number", neg |-> neg, m |-> m, e |-> e]

\* Infinity and -Infinity
Inf(neg) == [t |-> "number", neg |-> neg, inf |-> TRUE]

\* values[index]
At(values, index) == IF index <= Len(values) THEN Str(values[index]) ELSE Undefined

\* the longest prefix of s made of digits
DigitPrefix(s) ==
  LET stop == {i \in 1..Len(s) : ~IsDigit(s[i])} IN
  IF stop = {} THEN s ELSE SubSeq(s, 1, Min(stop) - 1)

\* s.startsWith(prefix)
StartsWith(s, prefix) ==
  /\ Len(s) >= Len(prefix)
  /\ SubSeq(s, 1, Len(prefix)) = prefix

(* Natural numbers of any size: sequences of the digits 0..9, the most     *)
(* significant first, without leading zeros; <<>> is zero.                 *)

\* d without its leading zeros
Strip(d) ==
  LET nz == {i \in 1..Len(d) : d[i] # 0} IN
  IF nz = {} THEN <<>> ELSE SubSeq(d, Min(nz), Len(d))

\* the digits of a run of digit characters
ToDigits(s) == Strip([i \in 1..Len(s) |-> DigitVal(s[i])])

\* the digits of a natural number that fits an integer
RECURSIVE DigitsOf(_)
DigitsOf(n) == IF n = 0 THEN <<>> ELSE Append(DigitsOf(n \div 10), n % 10)

\* every digit is 0
IsZero(r) == \A i \in 1..Len(r) : r[i] = 0

\* d * f + c as Len(d) digits and what is carried out of them: the low
\* half first, what it carries goes into the high half
RECURSIVE MulRaw(_, _, _)
MulRaw(d, f, c) ==
  IF Len(d) = 0 THEN [digits |-> <<>>, carry |-> c]
  ELSE IF Len(d) = 1
  THEN [digits |-> <<(d[1] * f + c) % 10>>, carry |-> (d[1] * f + c) \div 10]
  ELSE LET h == Len(d) \div 2
           lo == MulRaw(SubSeq(d, h + 1, Len(d)), f, c)
           hi == MulRaw(SubSeq(d, 1, h), f, lo.carry)
       IN IF lo.carry = 0 /\ IsZero(SubSeq(d, 1, h))
          THEN [digits |-> SubSeq(d, 1, h) \o lo.digits, carry |-> 0]
          ELSE [digits |-> hi.digits \o lo.digits, carry |-> hi.carry]

\* d * f, for a factor of at most 2^24
Times(d, f) == LET r == MulRaw(d, f, 0) IN Strip(DigitsOf(r.carry) \o r.digits)

\* (r * 10^Len(d) + d) divided by f, as the Len(d) digits of the quotient
\* and the remainder: the high half first, what remains of it goes into
\* the low half
RECURSIVE DivRaw(_, _, _)
DivRaw(d, f, r) ==
  IF Len(d) = 0 THEN [digits |-> <<>>, rem |-> r]
  ELSE IF Len(d) = 1
  THEN [digits |-> <<(10 * r + d[1]) \div f>>, rem |-> (10 * r + d[1]) % f]
  ELSE LET h == Len(d) \div 2
           hi == DivRaw(SubSeq(d, 1, h), f, r)
           lo == DivRaw(SubSeq(d, h + 1, Len(d)), f, hi.rem)
       IN IF hi.rem = 0 /\ IsZero(SubSeq(d, h + 1, Len(d)))
          THEN [digits |-> hi.digits \o SubSeq(d, h + 1, Len(d)), rem |-> 0]
          ELSE [digits |-> hi.digits \o lo.digits, rem |-> lo.rem]

\* d \div f and d % f, for a divisor of at most 2^24
Over(d, f) == Strip(DivRaw(d, f, 0).digits)
Rest(d, f) == DivRaw(d, f, 0).rem

IsOdd(d) == Len(d) > 0 /\ d[Len(d)] % 2 = 1

\* d + 1
RECURSIVE Succ(_)
Succ(d) ==
  IF Len(d) = 0 THEN <<1>>
  ELSE IF d[Len(d)] < 9 THEN [d EXCEPT ![Len(d)] = @ + 1]
  ELSE Append(Succ(SubSeq(d, 1, Len(d) - 1)), 0)

\* a < b
Less(a, b) ==
  \/ Len(a) < Len(b)
  \/ /\ Len(a) = Len(b)
     /\ \E i \in 1..Len(a) : a[i] < b[i] /\ \A j \in 1..(i - 1) : a[j] = b[j]

\* 2^53: a double has 53 significant bits
Two53 == <<9, 0, 0, 7, 1, 9, 9, 2, 5, 4, 7, 4, 0, 9, 9, 2>>

\* a \div 10^k
Quot(a, k) == IF Len(a) <= k THEN <<>> ELSE SubSeq(a, 1, Len(a) - k)

\* the k digits of a % 10^k
RemDigits(a, k) ==
  IF Len(a) < k THEN [i \in 1..(k - Len(a)) |-> 0] \o a
  ELSE SubSeq(a, Len(a) - k + 1, Len(a))

\* the numbers of bits a value is shifted by in one step, largest first:
\* 2^24 times a digit and a carry fits an integer
Shifts == <<24, 6, 1>>

\* m * 2^e with the factors 2 of m moved into the exponent
RECURSIVE Canonical(_, _, _, _)
Canonical(neg, m, e, s) ==
  IF Len(m) = 0 THEN Num(neg, <<>>, 0)
  ELSE IF s > Len(Shifts) THEN Num(neg, m, e)
  ELSE IF Rest(m, 2 ^ Shifts[s]) = 0
  THEN Canonical(neg, Over(m, 2 ^ Shifts[s]), e + Shifts[s], s)
  ELSE Canonical(neg, m, e, s + 1)

\* d * 2^j, by halves of j
RECURSIVE MulPow2(_, _)
MulPow2(d, j) ==
  IF j <= Shifts[1] THEN Times(d, 2 ^ j)
  ELSE LET half == MulPow2(d, j \div 2) IN
       IF Len(half) = 0 THEN <<>> ELSE MulPow2(half, j - j \div 2)

\* d \div 2^j, by halves of j
RECURSIVE DivPow2(_, _)
DivPow2(d, j) ==
  IF j <= Shifts[1] THEN Over(d, 2 ^ j)
  ELSE LET half == DivPow2(d, j \div 2) IN
       IF Len(half) = 0 THEN <<>> ELSE DivPow2(half, j - j \div 2)

\* the largest j in lo..hi with num * 2^j / 10^places below 2^53 (lo is one)
RECURSIVE MaxShift(_, _, _, _)
MaxShift(num, places, lo, hi) ==
  IF lo >= hi THEN lo
  ELSE IF Less(Quot(MulPow2(num, (lo + hi + 1) \div 2), places), Two53)
  THEN MaxShift(num, places, (lo + hi + 1) \div 2, hi)
  ELSE MaxShift(num, places, lo, (lo + hi + 1) \div 2 - 1)

\* the smallest j in lo..hi with d \div 2^j below 2^53 (hi is one)
RECURSIVE MinShift(_, _, _)
MinShift(d, lo, hi) ==
  IF lo >= hi THEN hi
  ELSE IF Less(DivPow2(d, (lo + hi) \div 2), Two53)
  THEN MinShift(d, lo, (lo + hi) \div 2)
  ELSE MinShift(d, (lo + hi) \div 2 + 1, hi)

\* (bits + 0.left) * 2^q rounded to the nearest double, ties to even;
\* left holds the decimal digits after the point
RoundDecimal(neg, bits, left, q) ==
  Canonical(neg,
            IF /\ Len(left) > 0
               /\ \/ left[1] > 5
                  \/ left[1] = 5 /\ (~IsZero(Tail(left)) \/ IsOdd(bits))
            THEN Succ(bits) ELSE bits,
            q, 1)

\* num / 10^places, below 2^53 and not whole: it is scaled by the largest
\* power of two that keeps it below 2^53, down to the exponent of the
\* subnormal doubles, and rounded there
FromBelow(neg, num, places, j) ==
  RoundDecimal(neg, Quot(MulPow2(num, j), places),
               RemDigits(MulPow2(num, j), places), -j)

\* bits * 2^q, bits at most 2^53; beyond the largest double it is Infinity
Finite(neg, bits, q) ==
  IF q > 971 \/ (q = 971 /\ bits = Two53) THEN Inf(neg)
  ELSE Canonical(neg, bits, q, 1)

\* half * 2^(j-1) + less, at least 2^53 * 2^(j-1): the last bit of half is
\* the first bit dropped, sticky whether a bit is set after it
RoundBinary(neg, half, sticky, j) ==
  Finite(neg,
         IF IsOdd(half) /\ (sticky \/ IsOdd(Over(half, 2)))
         THEN Succ(Over(half, 2)) ELSE Over(half, 2),
         j)

\* whole + 0.part, at least 2^53, halved j times to get below 2^53
FromAbove(neg, whole, part, j) ==
  RoundBinary(neg, DivPow2(whole, j - 1),
              ~IsZero(part) \/ MulPow2(DivPow2(whole, j - 1), j - 1) # whole, j)

\* the double nearest to num / 10^places (ties to even)
Nearest(neg, num, places) ==
  IF IsZero(RemDigits(num, places)) /\ Less(Quot(num, places), Two53)
  THEN Canonical(neg, Quot(num, places), 0, 1)    \* a whole number of 53 bits
  ELSE IF Less(Quot(num, places), Two53)
  THEN FromBelow(neg, num, places,
                 MaxShift(num, places, 0,
                          Min({1074, 54 + 4 * Max({0, places - Len(num) + 1})})))
  ELSE FromAbove(neg, Quot(num, places), RemDigits(num, places),
                 MinShift(Quot(num, places),
                          Max({1, 3 * (Len(num) - places - 1) - 52}),
                          4 * (Len(num) - places) - 53))

\* the double nearest to n * 10^x, n # 0 without leading zeros
ToDouble(neg, n, x) ==
  IF Len(n) + x > 309 THEN Inf(neg)                \* above the largest double
  ELSE IF Len(n) + x < -323 THEN Num(neg, <<>>, 0) \* below half the smallest
  ELSE IF x > 0 THEN Nearest(neg, n \o [i \in 1..x |-> 0], 0)
  ELSE Nearest(neg, n, -x)

\* d + c, for an integer c
Plus(d, c) == LET r == MulRaw(d, 1, c) IN Strip(DigitsOf(r.carry) \o r.digits)

\* the integer with the digits d, for a number that fits an integer
ExpValue(d) ==
  LET F[i \in 0..Len(d)] == IF i = 0 THEN 0 ELSE 10 * F[i - 1] + d[i]
  IN F[Len(d)]

\* the double nearest to n * 10^(e - places), or to n * 10^(-e - places)
\* when eneg, for n # 0 and an exponent e of any number of digits: e is
\* compared as its digits with what the lengths of n and of the fraction
\* leave room for, and it is an integer where the result is neither
\* Infinity nor zero for its size alone
Scaled(neg, n, eneg, e, places) ==
  IF eneg
  THEN IF Less(Plus(DigitsOf(Len(n)), 323), Plus(e, places))
       THEN Num(neg, <<>>, 0)                     \* below half the smallest
       ELSE ToDouble(neg, n, -(ExpValue(e) + places))
  ELSE IF Less(Plus(DigitsOf(places), 309), Plus(e, Len(n)))
       THEN Inf(neg)                              \* above the largest double
       ELSE ToDouble(neg, n, ExpValue(e) - places)

\* parseFloat(v): String(v) without its leading white space, then the
\* longest prefix that is a StrDecimalLiteral: a sign, Infinity or digits
\* with a fraction and an exponent; NaN when there is none
parseFloat(v) ==
  IF v.t # "string" THEN NaN
  ELSE
    LET nws == {i \in 1..Len(v.s) : v.s[i] \notin WhiteSpace}
        s0 == IF nws = {} THEN <<>> ELSE SubSeq(v.s, Min(nws), Len(v.s))
        signed == Len(s0) > 0 /\ s0[1] \in {"-", "+"}
        neg == Len(s0) > 0 /\ s0[1] = "-"
        s1 == IF signed THEN Tail(s0) ELSE s0
        whole == DigitPrefix(s1)
        r1 == SubSeq(s1, Len(whole) + 1, Len(s1))
        dot == Len(r1) > 0 /\ r1[1] = "."
        frac == IF dot THEN DigitPrefix(Tail(r1)) ELSE <<>>
        r2 == IF dot THEN SubSeq(r1, Len(frac) + 2, Len(r1)) ELSE r1
        r3 == IF Len(r2) > 0 /\ r2[1] \in {"e", "E"} THEN Tail(r2) ELSE <<>>
        esigned == Len(r3) > 0 /\ r3[1] \in {"-", "+"}
        eneg == Len(r3) > 0 /\ r3[1] = "-"
        edigits == DigitPrefix(IF esigned THEN Tail(r3) ELSE r3)
        n == ToDigits(whole \o frac)
    IN IF \/ StartsWith(s1, <<"Infinity">>)
          \/ StartsWith(s1, <<"I", "n", "f", "i", "n", "i", "t", "y">>)
       THEN Inf(neg)
       ELSE IF Len(whole) = 0 /\ Len(frac) = 0 THEN NaN
       ELSE IF Len(n) = 0 THEN Num(neg, <<>>, 0)
       ELSE Scaled(neg, n, eneg, ToDigits(edigits), Len(frac))

----------------------------------------------------------------------------
(* CSV ingestion: the body of handleUpload's try block *)

\* mutant of Rows: the blank rows are kept
Rows_keepsBlank(text) == Split(text, NL)

\* text.split('\n').filter(row => row.trim() !== '')
Rows(text) == SelectSeq(Split(text, NL), LAMBDA row : Trim(row) # <<>>)

\* rows[0].split(',')
Headers(rows) == Split(rows[1], COMMA)

requiredColumns == <<"id", "name", "description", "basePrice", "stock", "image", "category">>

\* mutant of missingColumns: find instead of filter, the first missing column only
missingColumns_firstOnly(headers) ==
  LET all == SelectSeq(requiredColumns, LAMBDA col : ~Includes(headers, col)) IN
  IF Len(all) = 0 THEN all ELSE <<all[1]>>

\* requiredColumns.filter(col => !headers.includes(col))
missingColumns(headers) == SelectSeq(requiredColumns, LAMBDA col : ~Includes(headers, col))

\* `Missing required columns: ${missingColumns.join(', ')}`
MissingMessage(missing) == <<"Missing required columns: ">> \o Join(missing, ", ")

\* the object literal a row's product starts from
EmptyProduct ==
  [k \in {<<requiredColumns[i]>> : i \in 1..Len(requiredColumns)} |->
     IF k \in {<<"basePrice">>, <<"stock">>} THEN Num(FALSE, <<>>, 0) ELSE Str(<<>>)]

\* the name of the accessor Object.prototype has for an object's prototype,
\* as one word or as its characters
IsProto(header) ==
  \/ header = <<"__proto__">>
  \/ header = <<"_", "_", "p", "r", "o", "t", "o", "_", "_">>

\* (product as any)[header] = value: the product gets or keeps an own field
\* of that name; under the name __proto__ the assignment goes to the
\* accessor, which ignores a value that is no object (a string, a number,
\* undefined), and the product is left as it is
SetField(product, header, value) ==
  IF IsProto(header) THEN product
  ELSE [k \in DOMAIN product \cup {header} |-> IF k = header THEN value ELSE product[k]]

\* mutant of FieldValue: the value is taken at the column's position in
\* requiredColumns, not at the header's position
FieldValue_canonicalIndex(header, values, index) ==
  LET at == {i \in 1..Len(requiredColumns) : <<requiredColumns[i]>> = header}
      pos == IF at = {} THEN index ELSE CHOOSE i \in at : TRUE
  IN IF header = <<"basePrice">> \/ header = <<"stock">>
     THEN parseFloat(At(values, pos))
     ELSE At(values, pos)

\* the value the forEach callback assigns for one header position
FieldValue(header, values, index) ==
  IF header = <<"basePrice">> \/ header = <<"stock">>
  THEN parseFloat(At(values, index))
  ELSE At(values, index)

\* headers.forEach((header, index) => ...), from position index on
RECURSIVE ForEachHeader(_, _, _, _)
ForEachHeader(product, headers, values, index) ==
  IF index > Len(headers) THEN product
  ELSE ForEachHeader(SetField(product, headers[index], FieldValue(headers[index], values, index)),
                     headers, values, index + 1)

\* the map callback: one row to one product
RowToProduct(headers, row) == ForEachHeader(EmptyProduct, headers, Split(row, COMMA), 1)

\* rows.slice(1)
DataRows(rows) == Tail(rows)

\* rows.slice(1).map(row => ...)
Products(headers, rows) ==
  LET data == DataRows(rows) IN [i \in 1..Len(data) |-> RowToProduct(headers, data[i])]

\* what a catch block can receive: an Error with its message, or a value
\* that is no Error
Error(message) == [error |-> TRUE, message |-> message]
NoError(value) == [error |-> FALSE, value |-> value]

\* the message of the TypeError that rows[0].split raises when rows is empty
\* (rows[0] is undefined); its wording is the JavaScript engine's
TypeErrorMessage == <<"Cannot read properties of undefined (reading 'split')">>

\* lines 49-82: the outcome of the try block's parsing for a file text: the
\* products to hand over, or the Error thrown
Ingest(text) ==
  LET rows == Rows(text) IN
  IF Len(rows) = 0 THEN [ok |-> FALSE, thrown |-> Error(TypeErrorMessage)]
  ELSE LET headers == Headers(rows)
           missing == missingColumns(headers)
       IN IF Len(missing) > 0
          THEN [ok |-> FALSE, thrown |-> Error(MissingMessage(missing))]
          ELSE [ok |-> TRUE, products |-> Products(headers, rows)]

----------------------------------------------------------------------------
(* The files a user can select *)

\* a sequence of strings written out with a separator between them
RECURSIVE Flatten(_, _)
Flatten(parts, sep) ==
  IF Len(parts) = 0 THEN <<>>
  ELSE IF Len(parts) = 1 THEN parts[1]
  ELSE parts[1] \o <<sep>> \o Flatten(Tail(parts), sep)

Line(cells) == Flatten(cells, COMMA)
Text(lines) == Flatten(lines, NL)

Reverse(s) == [i \in 1..Len(s) |-> s[Len(s) + 1 - i]]

\* s without the positions in drop
Without(s, drop) ==
  LET F[i \in 0..Len(s)] ==
        IF i = 0 THEN <<>>
        ELSE IF i \in drop THEN F[i - 1] ELSE Append(F[i - 1], s[i])
  IN F[Len(s)]

HeaderCells == [i \in 1..Len(requiredColumns) |-> <<requiredColumns[i]>>]

\* the two data rows of the sample the component displays (lines 171-172)
SampleRow1 ==
  << <<"1">>, <<"Laptop", " ", "Pro">>, <<"High-performance", " ", "laptop">>,
     <<"1", "2", "0", "0">>, <<"1", "0">>, <<"https://example.com/laptop.jpg">>,
     <<"Electronics">> >>

SampleRow2 ==
  << <<"2">>, <<"Office", " ", "Chair">>,
     <<"Ergonomic", " ", "chair", " ", "for", " ", "your", " ", "office">>,
     <<"3", "0", "0">>, <<"2", "5">>, <<"https://example.com/chair.jpg">>,
     <<"Furniture">> >>

\* a third row: a price with a fraction, a stock that is no number
OddRow ==
  << <<"3">>, <<"Desk">>, <<>>, <<" ", "-", "4", ".", "5", "0", "x">>, <<"many">>,
     <<>>, <<"Furniture">> >>

\* a fourth row: a price with white space, a sign, a fraction and an
\* exponent, a stock with an exponent
ExpRow ==
  << <<"4">>, <<"Lamp">>, <<>>, <<"\f", "+", "1", ".", "5", "E", "-", "2">>,
     <<"1", "e", "3">>, <<>>, <<"Furniture">> >>

\* a fifth row: a price with more digits than a double holds, a stock
\* beyond 2^31
BigRow ==
  << <<"5">>, <<"Rug">>, <<>>,
     <<"0", ".", "1", "0", "0", "0", "0", "0", "0", "0", "0", "0", "0", "0", "0",
       "0", "0", "0", "0", "0", "0", "0", "0", "1">>,
     <<"3", "0", "0", "0", "0", "0", "0", "0", "0", "0">>, <<>>, <<"Furniture">> >>

\* a sixth row: an infinite price, a stock after a no-break space
InfRow ==
  << <<"6">>, <<"Sofa">>, <<>>, <<"-", "Infinity">>, <<"U+00A0", "7">>,
     <<>>, <<"Furniture">> >>

\* cells with the values extra at position 4 and 5
Widened(cells, extra) == SubSeq(cells, 1, 3) \o extra \o SubSeq(cells, 4, 7)

\* the sets of required columns (positions in requiredColumns) left out of a header
MissingSets == {{1}, {2, 5}, {3, 4, 6, 7}, 1..7}

\* those of them that are also left out of a header in reverse order
ReversedMissingSets == {{2, 5}}

ValidTexts ==
  { \* a header alone, with and without a final line break
    Text(<<Line(HeaderCells)>>),
    Text(<<Line(HeaderCells), <<>>>>),
    \* the displayed sample: a header and two rows
    Text(<<Line(HeaderCells), Line(SampleRow1), Line(SampleRow2)>>),
    \* blank and white-space rows before the header, between the rows, at the end
    Text(<<<<>>, <<" ">>, <<"\f">>, Line(HeaderCells), <<"\t", "U+00A0">>,
           Line(SampleRow1), <<>>, <<"U+FEFF">>, Line(OddRow), <<" ", "U+3000", " ">>,
           Line(SampleRow2), <<"U+2028", "\r">>, <<>>>>),
    \* the columns in reverse order, header and rows alike
    Text(<<Line(Reverse(HeaderCells)), Line(Reverse(SampleRow1)), Line(Reverse(OddRow)),
           Line(Reverse(ExpRow))>>),
    \* two extra columns in the middle, one named extra, one named __proto__
    Text(<<Line(Widened(HeaderCells, << <<"extra">>, <<"__proto__">> >>)),
           Line(Widened(SampleRow1, << <<"x">>, <<"y">> >>)),
           Line(Widened(BigRow, << <<>>, <<"z">> >>)),
           Line(Widened(InfRow, << <<"x">>, <<>> >>))>>),
    \* the id column given twice, with different values
    Text(<<Line(HeaderCells \o << <<"id">> >>), Line(SampleRow1 \o << <<"9">> >>)>>),
    \* a row shorter than the header, a row longer than it, a row of commas
    Text(<<Line(HeaderCells), Line(SubSeq(SampleRow1, 1, 3)),
           Line(SampleRow2 \o << <<"more">> >>), <<COMMA, COMMA>>>>) }

InvalidTexts ==
  { \* no rows at all, and blank rows only
    <<>>,
    Text(<<<<" ">>, <<>>, <<"\t", " ">>, <<"\f", "U+000B", "U+2029">>>>) }
  \cup
  { \* required columns left out, the others in canonical order
    Text(<<Line(Without(HeaderCells, drop)), Line(SampleRow1)>>) : drop \in MissingSets }
  \cup
  { \* required columns left out, the others in reverse order
    Text(<<Line(Reverse(Without(HeaderCells, drop))), Line(SampleRow1)>>) :
      drop \in ReversedMissingSets }
  \cup
  { \* names that differ from the required ones in case or by a space
    Text(<<Line(<< <<"ID">>, <<"Name">> >> \o SubSeq(HeaderCells, 3, 6)
                \o << <<" ", "category">> >>),
           Line(SampleRow1)>>),
    \* lines ending in CR LF: the last header cell is "category\r"
    Text(<<Line(HeaderCells) \o <<"\r">>, Line(SampleRow1) \o <<"\r">>, <<>>>>) }

Texts == ValidTexts \cup InvalidTexts

csv == <<".", "c", "s", "v">>

\* file names, as their characters
GoodNames == {<<"a">> \o csv, csv}

BadNames == {<<"a", ".", "t", "x", "t">>, <<"a", ".", "C", "S", "V">>,
             <<"a">> \o csv \o <<".", "b">>, <<"c", "s", "v">>}

File(name, text) == [name |-> name, text |-> text]

SampleText == Text(<<Line(HeaderCells), Line(SampleRow1), Line(SampleRow2)>>)

\* the File objects a change event can carry
Files ==
  {File(name, text) : name \in GoodNames, text \in {SampleText}}
  \cup {File(<<"a">> \o csv, text) : text \in Texts}
  \cup {File(name, text) : name \in BadNames, text \in {SampleText}}
  \cup {File(<<"a", ".", "t", "x", "t">>, <<>>)}

\* e.target.files: no file (the dialog was dismissed) or the files chosen
FileLists == {<<>>} \cup {<<f>> : f \in Files}

----------------------------------------------------------------------------
(* Component state *)

\* useState<File | null>(null)
NoFile == [null |-> TRUE]

\* useState<{type, message} | null>(null)
NoStatus == [type |-> "null"]

Status(type, message) == [type |-> type, message |-> message]

\* no upload attempt has finished yet
NoAttempt == [null |-> TRUE]

\* file:         the selected File, or NoFile
\* uploading:    the uploading flag
\* uploadStatus: the status shown, or NoStatus
\* tasks:        the pending handleUpload calls, in the order they started; each
\*               holds the await it is suspended at and the file its closure holds
\* store:        the product store as this component drives it: the number of
\*               uploadProducts calls and the argument of the last one
\* done:         a record of the attempt that finished last: its file, whether
\*               file.text() delivered the text, the status it set
Init ==
  /\ file = NoFile
  /\ uploading = FALSE
  /\ uploadStatus = NoStatus
  /\ tasks = <<>>
  /\ store = [calls |-> 0, last |-> <<>>]
  /\ done = NoAttempt

\* the store's bulk upload, called with the products
uploadProducts(products) == store' = [calls |-> store.calls + 1, last |-> products]

----------------------------------------------------------------------------
(* Handlers *)

handleFileChange(files) ==
  /\ IF Len(files) > 0
     THEN /\ file' = files[1]
          /\ uploadStatus' = NoStatus
     ELSE UNCHANGED <<file, uploadStatus>>
  /\ UNCHANGED <<uploading, tasks, store, done>>

\* mutant of handleClearFile: the status is left in place
handleClearFile_keepsStatus ==
  /\ file' = NoFile
  /\ UNCHANGED <<uploadStatus, uploading, tasks, store, done>>

handleClearFile ==
  /\ file' = NoFile
  /\ uploadStatus' = NoStatus
  /\ UNCHANGED <<uploading, tasks, store, done>>

\* mutant of HasCsvExtension: includes instead of endsWith
HasCsvExtension_anywhere(f) ==
  \E i \in 1..Len(f.name) : EndsWith(SubSeq(f.name, 1, i), csv)

\* file.name.endsWith('.csv')
HasCsvExtension(f) == EndsWith(f.name, csv)

\* handleUpload up to its first await: the two checks, then the flag and the
\* status are set and the call suspends on the timer
handleUpload ==
  IF file = NoFile
  THEN /\ uploadStatus' = Status("error", <<"Please select a CSV file.">>)
       /\ UNCHANGED <<file, uploading, tasks, store, done>>
  ELSE IF ~HasCsvExtension(file)
  THEN /\ uploadStatus' = Status("error", <<"Please upload a valid CSV file.">>)
       /\ UNCHANGED <<file, uploading, tasks, store, done>>
  ELSE /\ uploading' = TRUE
       /\ uploadStatus' = NoStatus
       /\ tasks' = Append(tasks, [pc |-> "timer", file |-> file])
       /\ UNCHANGED <<file, store, done>>

\* tasks without the i-th
Remove(ts, i) == SubSeq(ts, 1, i - 1) \o SubSeq(ts, i + 1, Len(ts))

SuccessMessage(products) ==
  <<"Successfully processed ", ToString(Len(products)), " products.">>

\* error instanceof Error ? error.message : "An error occurred ..."
CatchMessage(thrown) ==
  IF thrown.error THEN thrown.message
  ELSE <<"An error occurred while processing the CSV file.">>

\* the status the try block sets after the products of r were handed over,
\* or the catch block for what r threw
Outcome(r) ==
  IF r.ok THEN Status("success", SuccessMessage(r.products))
  ELSE Status("error", CatchMessage(r.thrown))

\* await new Promise(resolve => setTimeout(resolve, 1500)) is over
TimerFires(i) ==
  /\ tasks[i].pc = "timer"
  /\ tasks' = [tasks EXCEPT ![i].pc = "text"]
  /\ UNCHANGED <<file, uploading, uploadStatus, store, done>>

\* mutant of TextResolves: the products are handed to the store before the
\* header is validated
TextResolves_uploadsBeforeValidation(i) ==
  /\ tasks[i].pc = "text"
  /\ LET text == tasks[i].file.text
         rows == Rows(text)
         r == Ingest(text)
     IN /\ IF Len(rows) > 0
           THEN uploadProducts(Products(Headers(rows), rows))
           ELSE UNCHANGED store
        /\ uploadStatus' = Outcome(r)
        /\ done' = [file |-> tasks[i].file, read |-> TRUE, result |-> Outcome(r)]
  /\ uploading' = FALSE
  /\ tasks' = Remove(tasks, i)
  /\ UNCHANGED file

\* mutant of TextResolves: the finally block also drops the file
TextResolves_clearsFile(i) ==
  /\ tasks[i].pc = "text"
  /\ LET r == Ingest(tasks[i].file.text)
     IN /\ IF r.ok THEN uploadProducts(r.products) ELSE UNCHANGED store
        /\ uploadStatus' = Outcome(r)
        /\ done' = [file |-> tasks[i].file, read |-> TRUE, result |-> Outcome(r)]
  /\ uploading' = FALSE
  /\ tasks' = Remove(tasks, i)
  /\ file' = NoFile

\* file.text() delivers the text: the rest of the try block, or the catch
\* block from where the try block throws, then the finally block
TextResolves(i) ==
  /\ tasks[i].pc = "text"
  /\ LET r == Ingest(tasks[i].file.text)
     IN /\ IF r.ok THEN uploadProducts(r.products) ELSE UNCHANGED store
        /\ uploadStatus' = Outcome(r)
        /\ done' = [file |-> tasks[i].file, read |-> TRUE, result |-> Outcome(r)]
  /\ uploading' = FALSE
  /\ tasks' = Remove(tasks, i)
  /\ UNCHANGED file

\* what file.text() can reject with when the file can no longer be read:
\* the DOMException of the platform (its message is the platform's), or,
\* from a File that is no platform object, a value that is no Error
RejectionReasons ==
  { Error(<<"The blob could not be read">>),
    Error(<<"The requested file could not be read, typically due to permission problems that have occurred after a reference to a file was acquired.">>),
    NoError(Str(<<"unreadable">>)) }

\* mutant of TextRejects: no catch block, the rejection leaves no status
TextRejects_noCatch(i, reason) ==
  /\ tasks[i].pc = "text"
  /\ done' = [file |-> tasks[i].file, read |-> FALSE, result |-> uploadStatus]
  /\ uploading' = FALSE
  /\ tasks' = Remove(tasks, i)
  /\ UNCHANGED <<file, store, uploadStatus>>

\* file.text() rejects with reason: catch, then finally
TextRejects(i, reason) ==
  /\ tasks[i].pc = "text"
  /\ uploadStatus' = Status("error", CatchMessage(reason))
  /\ done' = [file |-> tasks[i].file, read |-> FALSE,
              result |-> Status("error", CatchMessage(reason))]
  /\ uploading' = FALSE
  /\ tasks' = Remove(tasks, i)
  /\ UNCHANGED <<file, store>>

----------------------------------------------------------------------------
(* The rendered controls *)

\* <Input ... disabled={uploading} />
inputDisabled == uploading

\* {file && (<Button ...>Clear</Button>)}
clearRendered == file # NoFile

\* <Button ... onClick={handleClearFile} disabled={uploading}>
clearDisabled == uploading

\* mutant of uploadDisabled: the button is not disabled while uploading
uploadDisabled_whilePending == file = NoFile

\* <Button onClick={handleUpload} disabled={!file || uploading}>
uploadDisabled == file = NoFile \/ uploading

\* a change event of the file input
InputChange ==
  /\ ~inputDisabled
  /\ \E files \in FileLists : handleFileChange(files)

\* a click on Clear
ClearClick ==
  /\ clearRendered
  /\ ~clearDisabled
  /\ handleClearFile

\* a click on the upload button
UploadClick ==
  /\ ~uploadDisabled
  /\ store.calls < MaxCalls
  /\ handleUpload

Next ==
  \/ InputChange
  \/ ClearClick
  \/ UploadClick
  \/ \E i \in DOMAIN tasks : TimerFires(i)
  \/ \E i \in DOMAIN tasks : TextResolves(i)
  \/ \E i \in DOMAIN tasks, reason \in RejectionReasons : TextRejects(i, reason)

Spec == Init /\ [][Next]_vars

\* a pending call goes on: its timer fires, file.text() settles
Progress ==
  \E i \in DOMAIN tasks :
    \/ TimerFires(i)
    \/ \E reason \in RejectionReasons : TextRejects(i, reason)
    \/ TextResolves(i)

FairSpec == Spec /\ WF_vars(Progress)

----------------------------------------------------------------------------
(* What the claims speak of, stated on the file text itself *)

\* the rows of a text that hold a character other than white space
NonBlankRows(text) ==
  SelectSeq(Split(text, NL), LAMBDA row : \E i \in 1..Len(row) : row[i] \notin WhiteSpace)

\* the names of the first non-blank row
FirstRowNames(text) == Split(NonBlankRows(text)[1], COMMA)

\* the required names that are none of the cells, in canonical order
Absent(cells) ==
  SelectSeq(requiredColumns, LAMBDA col : \A i \in 1..Len(cells) : cells[i] # <<col>>)

\* the last attempt read its file's text
TextRead == done # NoAttempt /\ done.read

\* the attempt recorded in d read a text with a first row that has all
\* required names
ValidHeader(d) ==
  /\ d # NoAttempt
  /\ d.read
  /\ Len(NonBlankRows(d.file.text)) > 0
  /\ Absent(FirstRowNames(d.file.text)) = <<>>

\* the last attempt read a text with a first row that has all required names
ValidHeaderRead == ValidHeader(done)

\* a step in which a pending handleUpload call finishes
AttemptFinishes == Len(tasks') < Len(tasks)

----------------------------------------------------------------------------
(* C1 *)

\* C1: when the first non-blank row of the text read lacks required names,
\* the attempt ends in an error status whose message is 'Missing required
\* columns: ' followed by exactly the absent names, in canonical order,
\* joined by ', '.
C1_MissingColumnsListed ==
  (/\ TextRead
   /\ Len(NonBlankRows(done.file.text)) > 0
   /\ Absent(FirstRowNames(done.file.text)) # <<>>)
  => done.result =
       Status("error", <<"Missing required columns: ">>
                         \o Join(Absent(FirstRowNames(done.file.text)), ", "))

\* an attempt ended on a header lacking name and stock, and says so
C1_Witness ==
  /\ TextRead
  /\ Len(NonBlankRows(done.file.text)) > 0
  /\ Absent(FirstRowNames(done.file.text)) = <<"name", "stock">>
  /\ uploadStatus = Status("error", <<"Missing required columns: ", "name", ", ", "stock">>)
  /\ ~uploading

----------------------------------------------------------------------------
(* C2 *)

\* C2: a text with no non-blank row, or with a valid header row and nothing
\* else, ends in a success status with count 0, and the store receives the
\* empty sequence.
C2_EmptyInputSucceeds ==
  (/\ TextRead
   /\ \/ Len(NonBlankRows(done.file.text)) = 0
      \/ /\ Len(NonBlankRows(done.file.text)) = 1
         /\ Absent(FirstRowNames(done.file.text)) = <<>>)
  => /\ done.result = Status("success", <<"Successfully processed ", "0", " products.">>)
     /\ store.calls > 0
     /\ store.last = <<>>

----------------------------------------------------------------------------
(* C3 *)

\* the records of a text with a valid header: one per non-blank row after
\* the first
Records(text) ==
  LET rows == NonBlankRows(text) IN
  [k \in 1..(Len(rows) - 1) |-> RowToProduct(FirstRowNames(text), rows[k + 1])]

\* C3: uploadProducts is called at most once in an attempt: in the step that
\* finishes an attempt in success, and then with the complete sequence of
\* the records; no other step calls it, in particular no step that sets an
\* error status.
C3_StoreCalledOnceWithAll ==
  [][/\ store'.calls \in {store.calls, store.calls + 1}
     /\ (store'.calls = store.calls + 1)
          <=> (AttemptFinishes /\ uploadStatus'.type = "success")
     /\ (store'.calls = store.calls + 1)
          => store'.last = Records(done'.file.text)
     /\ (store'.calls = store.calls) => store' = store]_vars

\* an attempt succeeded and the store was called once, with both records
C3_Witness ==
  /\ done # NoAttempt
  /\ done.result.type = "success"
  /\ store.calls = 1
  /\ Len(store.last) = 2
  /\ store.last = Records(done.file.text)

----------------------------------------------------------------------------
(* C4 *)

\* C4: an upload triggered with no file, or with a file whose name does not
\* end in '.csv', sets an error status and nothing else: the uploading flag
\* stays false, no call is suspended on the timer, no text is read, the store
\* is not called.  So every pending and every finished attempt has a file
\* with a name ending in '.csv'.
C4_RejectedBeforeAsyncWork ==
  /\ [][(UploadClick /\ (file = NoFile \/ ~EndsWith(file.name, csv)))
          => /\ uploadStatus'.type = "error"
             /\ uploading' = FALSE
             /\ uploading = FALSE
             /\ UNCHANGED <<file, tasks, store, done>>]_vars
  /\ [](\A i \in DOMAIN tasks : EndsWith(tasks[i].file.name, csv))
  /\ [](done # NoAttempt => EndsWith(done.file.name, csv))

\* a file named a.csv.b with the sample's content was rejected: nothing is
\* pending, nothing was read, the store was not called
C4_Witness ==
  /\ file = File(<<"a">> \o csv \o <<".", "b">>, SampleText)
  /\ uploadStatus = Status("error", <<"Please upload a valid CSV file.">>)
  /\ ~uploading
  /\ tasks = <<>>
  /\ done = NoAttempt
  /\ store.calls = 0

----------------------------------------------------------------------------
(* C5 *)

\* the value a record's field holds for the cell at position index of a row
Held(name, values, index) ==
  IF name \in {<<"basePrice">>, <<"stock">>}
  THEN parseFloat(At(values, index))
  ELSE At(values, index)

\* s with the values at positions i and j exchanged
Swap(s, i, j) ==
  [k \in 1..Len(s) |-> IF k = i THEN s[j] ELSE IF k = j THEN s[i] ELSE s[k]]

\* no name occurs twice
Distinct(names) ==
  \A i, j \in 1..Len(names) : names[i] = names[j] => i = j

\* the last position that holds the name at position i
LastOf(names, i) == Max({j \in 1..Len(names) : names[j] = names[i]})

\* the last attempt has just finished: its file is selected, its status shown
JustFinished ==
  /\ done # NoAttempt
  /\ tasks = <<>>
  /\ file = done.file
  /\ uploadStatus = done.result

\* C5 as stated: with a header that has all seven names, validation passes,
\* each record's field named by the header at position i holds the row's
\* value at position i, and exchanging two columns in the header and in a
\* row gives the same record (compared when the attempt has just finished).
C5_FieldHoldsValueAtItsPosition ==
  ValidHeaderRead =>
    LET names == FirstRowNames(done.file.text)
        rows == NonBlankRows(done.file.text)
    IN /\ done.result.type = "success"
       /\ Len(store.last) = Len(rows) - 1
       /\ \A k \in 1..Len(store.last) :
            LET values == Split(rows[k + 1], COMMA) IN
            /\ \A i \in 1..Len(names) :
                 /\ names[i] \in DOMAIN store.last[k]
                 /\ store.last[k][names[i]] = Held(names[i], values, i)
            /\ \A i, j \in 1..Len(names) :
                 (JustFinished /\ i < j /\ j <= Len(values))
                   => RowToProduct(Swap(names, i, j), Line(Swap(values, i, j)))
                        = store.last[k]

\* C5, amended: with a header that has all seven names, validation passes,
\* each record's field named by the header at position i holds the row's
\* value at the last position whose header has that name, except that the
\* name __proto__ names no field of the record, and when no name occurs
\* twice exchanging two columns in the header and in a row gives the same
\* record (compared when the attempt has just finished).
C5_FieldHoldsValueAtLastPosition ==
  ValidHeaderRead =>
    LET names == FirstRowNames(done.file.text)
        rows == NonBlankRows(done.file.text)
    IN /\ done.result.type = "success"
       /\ Len(store.last) = Len(rows) - 1
       /\ \A k \in 1..Len(store.last) :
            LET values == Split(rows[k + 1], COMMA) IN
            /\ \A i \in 1..Len(names) :
                 IF IsProto(names[i]) THEN names[i] \notin DOMAIN store.last[k]
                 ELSE /\ names[i] \in DOMAIN store.last[k]
                      /\ store.last[k][names[i]]
                           = Held(names[i], values, LastOf(names, i))
            /\ \A i, j \in 1..Len(names) :
                 (JustFinished /\ i < j /\ j <= Len(values) /\ Distinct(names))
                   => RowToProduct(Swap(names, i, j), Line(Swap(values, i, j)))
                        = store.last[k]

\* the file with the columns in reverse order was processed: the first
\* record's basePrice is the number 1200 (75 * 2^4), read at position 4 of
\* a row whose header names basePrice fourth, the third record's stock is
\* the number 1000 (125 * 2^3), read from 1e3
C5_Witness ==
  /\ ValidHeaderRead
  /\ FirstRowNames(done.file.text) = Reverse(HeaderCells)
  /\ done.result.type = "success"
  /\ Len(store.last) = 3
  /\ store.last[1][<<"basePrice">>] = Num(FALSE, <<7, 5>>, 4)
  /\ store.last[1][<<"id">>] = Str(<<"1">>)
  /\ store.last[3][<<"stock">>] = Num(FALSE, <<1, 2, 5>>, 3)

----------------------------------------------------------------------------
(* C6 *)

\* C6: for a text with a valid header, the attempt succeeds, the store
\* receives one record per non-blank row after the header, in the order of
\* the rows, and the status reports their number.
C6_OneRecordPerRowInOrder ==
  ValidHeaderRead =>
    LET names == FirstRowNames(done.file.text)
        rows == NonBlankRows(done.file.text)
    IN /\ done.result = Status("success",
            <<"Successfully processed ", ToString(Len(rows) - 1), " products.">>)
       /\ Len(store.last) = Len(rows) - 1
       /\ \A k \in 1..Len(store.last) : store.last[k] = RowToProduct(names, rows[k + 1])

\* the text with blank rows around its three data rows was processed: three
\* records, the second one the row with id 3
C6_Witness ==
  /\ ValidHeaderRead
  /\ Len(Split(done.file.text, NL)) > Len(NonBlankRows(done.file.text))
  /\ uploadStatus = Status("success", <<"Successfully processed ", "3", " products.">>)
  /\ Len(store.last) = 3
  /\ store.last[1][<<"id">>] = Str(<<"1">>)
  /\ store.last[2][<<"id">>] = Str(<<"3">>)
  /\ store.last[3][<<"id">>] = Str(<<"2">>)

----------------------------------------------------------------------------
(* C7 *)

\* C7 as stated: after clearFile, and after a step that finishes an attempt,
\* there is no file handle.
C7_NoFileAfterClearOrAttempt ==
  [][(ClearClick \/ AttemptFinishes) => file' = NoFile]_vars

\* C7, amended: clearFile discards the file handle; a step that finishes an
\* attempt, in success or in error, leaves the handle it was started with
\* in place.
C7_FileDiscardedOnClearOnly ==
  [][/\ ClearClick => file' = NoFile
     /\ AttemptFinishes => (file' = file /\ file' # NoFile /\ file' = done'.file)]_vars

\* an attempt has finished and its file is still selected
C7_Witness ==
  /\ done # NoAttempt
  /\ ~uploading
  /\ uploadStatus # NoStatus
  /\ file = done.file

----------------------------------------------------------------------------
(* C8 *)

\* C8: at most one attempt is pending, and one is pending exactly while
\* uploading is true; then the three controls are disabled, no attempt
\* starts, the file handle does not change, and the status changes only in
\* the step that finishes the attempt.
C8_SingleAttemptInFlight ==
  /\ [](Len(tasks) <= 1)
  /\ [](uploading <=> Len(tasks) = 1)
  /\ [](uploading => (inputDisabled /\ clearDisabled /\ uploadDisabled))
  /\ [][uploading => /\ Len(tasks') <= Len(tasks)
                     /\ file' = file
                     /\ (uploadStatus' # uploadStatus => AttemptFinishes)]_vars

\* an attempt is pending, past its timer
C8_Witness ==
  /\ uploading
  /\ Len(tasks) = 1
  /\ tasks[1].pc = "text"
  /\ tasks[1].file = file

----------------------------------------------------------------------------
(* C9 *)

\* C9: handleFileChange with a file makes it the file handle and clears the
\* status, without a file it changes neither; handleClearFile clears both;
\* neither changes the uploading flag, the pending attempts or the store.
C9_SelectAndClearEffects ==
  [][/\ \A files \in FileLists :
          (~inputDisabled /\ handleFileChange(files))
            => /\ IF Len(files) > 0
                  THEN file' = files[1] /\ uploadStatus' = NoStatus
                  ELSE file' = file /\ uploadStatus' = uploadStatus
               /\ UNCHANGED <<uploading, tasks, store>>
     /\ ClearClick
          => /\ file' = NoFile
             /\ uploadStatus' = NoStatus
             /\ UNCHANGED <<uploading, tasks, store>>]_vars

\* after an attempt that set a status, no file and no status are left: the
\* file was cleared
C9_Witness ==
  /\ done # NoAttempt
  /\ file = NoFile
  /\ uploadStatus = NoStatus
  /\ ~uploading
  /\ store.calls = 1

----------------------------------------------------------------------------
(* C10 *)

\* C10: while an attempt is pending the status is none; the attempt
\* eventually finishes, and the step that finishes it resets the uploading
\* flag and sets a success or an error status.
C10_AttemptCompletes ==
  /\ [](uploading => uploadStatus = NoStatus)
  /\ [][AttemptFinishes => /\ uploading' = FALSE
                           /\ uploadStatus'.type \in {"success", "error"}
                           /\ uploadStatus' = done'.result]_vars
  /\ (uploading ~> (~uploading /\ uploadStatus # NoStatus))

\* an attempt whose file could not be read, rejected with a value that is
\* no Error, has finished with the error status of the fallback message
C10_Witness ==
  /\ done # NoAttempt
  /\ ~done.read
  /\ ~uploading
  /\ uploadStatus = Status("error", <<"An error occurred while processing the CSV file.">>)

====
